---- MODULE Spec2Model ----
(***************************************************************************)
(* A model of the ai package of openrouter-go: the client factory and the  *)
(* three provider adapters (OpenAI, Gemini, Bedrock).                      *)
(*                                                                         *)
(* The provider SDKs, the network and the JSON codec are the environment:  *)
(* what they answer is drawn from small sets.  What the adapters do with   *)
(* the caller's messages, the config and the SDK's answer is translated    *)
(* from the Go code.                                                       *)
(*                                                                         *)
(* Go values are written as follows.                                       *)
(*   - a struct is a record with the Go field names;                       *)
(*   - a nil-able pointer or an optional request field is a sequence of    *)
(*     length 0 (nil / absent) or 1 (set);                                 *)
(*   - float32 values are opaque strings ("0.7", "NaN"): the code never    *)
(*     computes with them, it only copies them (float32 -> float64 is      *)
(*     exact) and JSON-encodes them (which fails for NaN);                 *)
(*   - an error is a string, NoError for nil.                              *)
(***************************************************************************)
EXTENDS Integers, Sequences, FiniteSets, TLC

VARIABLES
    c,          \* the adapter under test (the Client the factory returned)
    created,    \* ids of the SDK handles Initialize created on c that own a connection
    released,   \* ids of the SDK handles whose Close has been called
    inits,      \* number of Initialize calls made on c
    pc,         \* the caller: "idle", or "returned" while it holds a result
    ret,        \* what the last operation returned and what it did on the way
    g           \* the goroutines of the concurrent caller (ConcSpec only)

vars == <<c, created, released, inits, pc, ret, g>>

-----------------------------------------------------------------------------
(* Bounds of the model *)

\* longest message list a caller passes
MaxMessages == 2
\* Initialize calls on one adapter instance
MaxInitialize == 2

-----------------------------------------------------------------------------
(* Data model: ai_client_interface.go *)

NoError == "nil"

ProviderOpenAI == "openai"
ProviderGemini == "gemini"
ProviderBedrock == "bedrock"

\* provider identifiers a caller may pass to the factory
ProviderIds ==
    {ProviderOpenAI, ProviderGemini, ProviderBedrock, "", "OpenAI", "GEMINI", "anthropic"}

\* the three adapter types, and the nil Client
OpenAIClient == "OpenAIClient"
GeminiClient == "GeminiClient"
BedrockClient == "BedrockClient"
NilClient == "nil"

ClientOptions(access, secret, api, region, endpoint, modelID) ==
    [AccessKey |-> access, SecretKey |-> secret, APIKey |-> api, Region |-> region,
     EndpointURL |-> endpoint, ModelID |-> modelID, Timeout |-> 0]

\* ClientOptions{}
ZeroOptions == ClientOptions("", "", "", "", "", "")

\* A ClientOption (WithAPIKey, WithRegion, ...) is the field it sets and the value.
WithAPIKey(v) == <<"APIKey", v>>
WithRegion(v) == <<"Region", v>>
WithEndpointURL(v) == <<"EndpointURL", v>>
WithModelID(v) == <<"ModelID", v>>
WithAccessKey(v) == <<"AccessKey", v>>
WithSecretKey(v) == <<"SecretKey", v>>

\* for _, opt := range opts { opt(&options) }
RECURSIVE ApplyOptions(_, _)
ApplyOptions(options, opts) ==
    IF opts = <<>> THEN options
    ELSE ApplyOptions([options EXCEPT ![Head(opts)[1]] = Head(opts)[2]], Tail(opts))

\* the option lists callers pass: the README's Bedrock example (the access key
\* as API key, the secret key as endpoint URL), which also is how an OpenAI or
\* Gemini caller passes an API key and a model id; and the access-key and
\* secret-key options with no model id (and no API key)
SampleOptions ==
    { <<WithAPIKey("AKIA"), WithEndpointURL("s3cr3t"), WithRegion("us-east-1"),
        WithModelID("amazon.nova-lite-v1:0")>>,
      <<WithAccessKey("AKIA"), WithSecretKey("s3cr3t"), WithRegion("us-east-1")>> }

Image(format, data, url) == [Format |-> format, Data |-> data, URL |-> url]
InputMessage(role, content, images) == [Role |-> role, Content |-> content, Images |-> images]

ModelConfig(t, p, k, m, sys) ==
    [Temperature |-> t, TopP |-> p, TopK |-> k, MaxTokens |-> m,
     SystemPrompt |-> sys, StopSequences |-> <<>>]

TokenUsage(in, out, total) == [InputTokens |-> in, OutputTokens |-> out, TotalTokens |-> total]

\* the nil interface value in Response.Raw
NilRaw == [nil |-> TRUE]

\* Response{}
ZeroResponse == [Text |-> "", TokenUsage |-> TokenUsage(0, 0, 0), Raw |-> NilRaw]

-----------------------------------------------------------------------------
(* The adapter structs *)

\* a nil *openai.Client / *genai.Client / *bedrockruntime.Client
NilHandle == [id |-> 0, key |-> "", secret |-> "", region |-> ""]
\* the handle the SDK constructor returns: it keeps the credentials it was given
Handle(id, key, secret, region) == [id |-> id, key |-> key, secret |-> secret, region |-> region]

\* a nil *genai.GenerativeModel
NilModel == [nil |-> TRUE, name |-> "", Temperature |-> <<>>, TopP |-> <<>>, TopK |-> <<>>,
             MaxOutputTokens |-> <<>>, SystemInstruction |-> <<>>]
\* client.GenerativeModel(name): every generation setting still nil
GenerativeModel(name) == [NilModel EXCEPT !.nil = FALSE, !.name = name]

\* &OpenAIClient{}, &GeminiClient{}, &BedrockClient{}: every field at its zero value
NewAdapter(kind) ==
    [kind |-> kind, client |-> NilHandle, options |-> ZeroOptions, modelID |-> "",
     model |-> NilModel]

NewOpenAIClient == NewAdapter(OpenAIClient)
NewGeminiClient == NewAdapter(GeminiClient)
NewBedrockClient == NewAdapter(BedrockClient)

\* no adapter: the factory has returned nil, or nothing has been constructed yet
NoAdapter == NewAdapter(NilClient)

-----------------------------------------------------------------------------
(* The client factory: ai_client_factory.go *)

UnsupportedProvider(provider) == "unsupported provider: " \o provider

\* NewClient matching the identifier without regard to case
NewClientAnyCase(provider) ==
    CASE provider \in {"openai", "OpenAI"}  -> [client |-> NewOpenAIClient,  err |-> NoError]
      [] provider \in {"gemini", "GEMINI"}  -> [client |-> NewGeminiClient,  err |-> NoError]
      [] provider = "bedrock"               -> [client |-> NewBedrockClient, err |-> NoError]
      [] OTHER -> [client |-> NoAdapter, err |-> UnsupportedProvider(provider)]

\* NewClient: the adapter for the identifier, or nil and an error
NewClient(provider) ==
    CASE provider = ProviderOpenAI  -> [client |-> NewOpenAIClient,  err |-> NoError]
      [] provider = ProviderGemini  -> [client |-> NewGeminiClient,  err |-> NoError]
      [] provider = ProviderBedrock -> [client |-> NewBedrockClient, err |-> NoError]
      [] OTHER -> [client |-> NoAdapter, err |-> UnsupportedProvider(provider)]

-----------------------------------------------------------------------------
(* Initialize.  id is the identity of the SDK handle the constructor would  *)
(* return, sdkOK whether the SDK constructor succeeds.  Each operator       *)
(* returns the adapter after the call (c), the error (err) and the handles  *)
(* it created that own a connection to be closed (opened).                  *)

OpenAIDefaultModel == "gpt-4o-mini"
GeminiDefaultModel == "models/gemini-2.0-flash-lite-preview-02-05"
SDKError == "sdk: request failed"

\* openai.NewClient never fails, and the handle needs no cleanup
OpenAIInitialize(a, opts, id, sdkOK) ==
    LET options == ApplyOptions([ZeroOptions EXCEPT !.ModelID = OpenAIDefaultModel], opts)
    IN  [c |-> [a EXCEPT !.options = options,
                         !.modelID = options.ModelID,
                         !.client = Handle(id, options.APIKey, "", "")],
         err |-> NoError,
         opened |-> {}]

\* c.options is stored before genai.NewClient is tried
GeminiInitialize(a, opts, id, sdkOK) ==
    LET options == ApplyOptions([ZeroOptions EXCEPT !.ModelID = GeminiDefaultModel], opts)
    IN  IF ~sdkOK
        THEN [c |-> [a EXCEPT !.options = options],
              err |-> "failed to create Gemini client: " \o SDKError,
              opened |-> {}]
        ELSE [c |-> [a EXCEPT !.options = options,
                              !.client = Handle(id, options.APIKey, "", ""),
                              !.model = GenerativeModel(options.ModelID)],
              err |-> NoError,
              opened |-> {id}]

\* the ClientOptions struct the caller's options amount to
OptionsStruct(opts) == ApplyOptions(ZeroOptions, opts)

\* the static credentials are opts.AccessKey and opts.SecretKey
BedrockInitialize(a, opts, id, sdkOK) ==
    LET o == OptionsStruct(opts)
    IN  IF ~sdkOK
        THEN [c |-> a,
              err |-> "unable to load AWS SDK config: " \o SDKError,
              opened |-> {}]
        ELSE [c |-> [a EXCEPT !.options = o,
                              !.client = Handle(id, o.AccessKey, o.SecretKey, o.Region),
                              !.modelID = o.ModelID],
              err |-> NoError,
              opened |-> {}]

\* Client.Initialize, dispatched on the adapter's type
Initialize(a, opts, id, sdkOK) ==
    CASE a.kind = OpenAIClient  -> OpenAIInitialize(a, opts, id, sdkOK)
      [] a.kind = GeminiClient  -> GeminiInitialize(a, opts, id, sdkOK)
      [] a.kind = BedrockClient -> BedrockInitialize(a, opts, id, sdkOK)

\* InitializeClient handing back the adapter although its Initialize failed
InitializeClientKeepsFailed(provider, opts, id, sdkOK) ==
    LET made == NewClient(provider)
    IN  IF made.err # NoError
        THEN [client |-> NoAdapter, err |-> made.err, initCalls |-> <<>>, opened |-> {}]
        ELSE LET i == Initialize(made.client, opts, id, sdkOK)
             IN  [client |-> i.c, err |-> i.err, initCalls |-> <<opts>>,
                  opened |-> i.opened]

\* InitializeClient: NewClient, then Initialize on what it returned.
\* initCalls lists the options of every Initialize call made.
InitializeClient(provider, opts, id, sdkOK) ==
    LET made == NewClient(provider)
    IN  IF made.err # NoError
        THEN [client |-> NoAdapter, err |-> made.err, initCalls |-> <<>>, opened |-> {}]
        ELSE LET i == Initialize(made.client, opts, id, sdkOK)
             IN  IF i.err # NoError
                 THEN [client |-> NoAdapter, err |-> i.err, initCalls |-> <<opts>>,
                       opened |-> {}]
                 ELSE [client |-> i.c, err |-> NoError, initCalls |-> <<opts>>,
                       opened |-> i.opened]

-----------------------------------------------------------------------------
(* Close.  closeErr is what the SDK's own Close answers.  closed are the    *)
(* handles the call closes.                                                 *)

OpenAIClose(a, closeErr) == [err |-> NoError, closed |-> <<>>]

BedrockClose(a, closeErr) == [err |-> NoError, closed |-> <<>>]

\* c.client.Close() when c.client is not nil; the field is left as it is
GeminiClose(a, closeErr) ==
    IF a.client # NilHandle
    THEN [err |-> closeErr, closed |-> <<a.client.id>>]
    ELSE [err |-> NoError, closed |-> <<>>]

Close(a, closeErr) ==
    CASE a.kind = OpenAIClient  -> OpenAIClose(a, closeErr)
      [] a.kind = GeminiClient  -> GeminiClose(a, closeErr)
      [] a.kind = BedrockClient -> BedrockClose(a, closeErr)

-----------------------------------------------------------------------------
(* Inputs of TextCompletion and ImageRecognition *)

\* float32 values; NaN is the one encoding/json refuses
NaN == "NaN"

InlineImage == Image("jpeg", <<137, 80>>, "")
UrlImage == Image("png", <<>>, "http://img/1")
OtherUrlImage == Image("webp", <<>>, "http://img/2")
BothImage == Image("jpeg", <<137, 80>>, "http://img/1")
NoSourceImage == Image("gif", <<>>, "")

\* the messages callers pass
SampleMessages ==
    { InputMessage("user", "hi", <<>>),
      InputMessage("system", "be brief", <<>>),
      InputMessage("tool", "", <<UrlImage, InlineImage, OtherUrlImage>>),
      InputMessage("assistant", "what is this?", <<BothImage, NoSourceImage>>),
      InputMessage("", "", <<>>) }

\* every message list of at most MaxMessages messages
MessageLists == UNION {[1..n -> SampleMessages] : n \in 0..MaxMessages}

\* the configs callers pass: all zero, negative values with a system prompt,
\* a NaN temperature
SampleConfigs ==
    { ModelConfig("0", "0", 0, 0, ""),
      ModelConfig("-1.5", "2.5", -3, -7, "You are Yoda."),
      ModelConfig(NaN, "0.9", 20, 100, "") }

LastOf(s) == s[Len(s)]

-----------------------------------------------------------------------------
(* What an operation hands back to the model: the adapter after the call,  *)
(* whether the call panicked, the returned Response and error, the requests *)
(* it handed to the provider SDK (in order), the URLs it downloaded and the *)
(* SDK's answer it parsed.                                                  *)

Returned(a, resp, err, reqs, downloads) ==
    [c |-> a, panicked |-> FALSE, resp |-> resp, err |-> err, reqs |-> reqs,
     downloads |-> downloads]

\* a nil pointer dereference: the call never returns
Panicked(a, downloads) ==
    [c |-> a, panicked |-> TRUE, resp |-> ZeroResponse, err |-> NoError, reqs |-> <<>>,
     downloads |-> downloads]

\* the SDK call failed / answered with body
SDKFailure == [ok |-> FALSE, body |-> NilRaw]
SDKAnswer(body) == [ok |-> TRUE, body |-> body]

-----------------------------------------------------------------------------
(* OpenAI: openai_client_implementation.go *)

SystemMessage(text) == [role |-> "system", content |-> text]
AssistantMessage(text) == [role |-> "assistant", content |-> text]
UserMessage(text) == [role |-> "user", content |-> text]

\* the switch on msg.Role: anything but system and assistant is a user message
OpenAIMessage(msg) ==
    CASE msg.Role = "system"    -> SystemMessage(msg.Content)
      [] msg.Role = "assistant" -> AssistantMessage(msg.Content)
      [] OTHER                  -> UserMessage(msg.Content)

\* the message sequence in which an input message with role "system" takes
\* the place of the system prompt
OpenAIMessagesSystemReplaces(messages, config) ==
    LET hasSystem == \E i \in 1..Len(messages) : messages[i].Role = "system"
    IN  (IF config.SystemPrompt # "" /\ ~hasSystem
         THEN <<SystemMessage(config.SystemPrompt)>> ELSE <<>>)
        \o [i \in 1..Len(messages) |-> OpenAIMessage(messages[i])]

\* the system message if there is a prompt, then every input message in order
OpenAIMessages(messages, config) ==
    (IF config.SystemPrompt # "" THEN <<SystemMessage(config.SystemPrompt)>> ELSE <<>>)
    \o [i \in 1..Len(messages) |-> OpenAIMessage(messages[i])]

\* openai.ChatCompletionNewParams: the fields the adapter sets.  There is no
\* top-k field and the stop sequences are not set.
OpenAIParams(a, messages, config) ==
    [api |-> "chat.completions",
     handle |-> a.client.id,
     Messages |-> OpenAIMessages(messages, config),
     Model |-> a.modelID,
     Temperature |-> <<config.Temperature>>,
     TopP |-> <<config.TopP>>,
     MaxTokens |-> <<config.MaxTokens>>]

\* a ChatCompletion as the SDK returns it
ChatCompletion(choices, prompt, completion, total) ==
    [Choices |-> [i \in 1..Len(choices) |-> [Message |-> [Content |-> choices[i]]]],
     Usage |-> [PromptTokens |-> prompt, CompletionTokens |-> completion,
                TotalTokens |-> total]]

OpenAIAnswers ==
    { SDKFailure,
      SDKAnswer(ChatCompletion(<<>>, 3, 0, 3)),
      SDKAnswer(ChatCompletion(<<"hello">>, 5, 7, 12)),
      SDKAnswer(ChatCompletion(<<"first", "second">>, 9, 4, 13)) }

\* the Response built from a ChatCompletion
OpenAIResponse(response) ==
    [Text |-> IF Len(response.Choices) > 0 THEN response.Choices[1].Message.Content ELSE "",
     TokenUsage |-> TokenUsage(response.Usage.PromptTokens,
                               response.Usage.CompletionTokens,
                               response.Usage.TotalTokens),
     Raw |-> response]

\* TextCompletion asking the SDK a second time when the first request fails
OpenAITextCompletionRetry(a, messages, config, sdk) ==
    LET params == OpenAIParams(a, messages, config)
    IN  IF a.client = NilHandle
        THEN Panicked(a, <<>>)
        ELSE IF ~sdk.ok
        THEN Returned(a, ZeroResponse, "error getting response: " \o SDKError,
                      <<params, params>>, <<>>)
        ELSE Returned(a, OpenAIResponse(sdk.body), NoError, <<params>>, <<>>)

OpenAITextCompletion(a, messages, config, sdk) ==
    LET params == OpenAIParams(a, messages, config)
    IN  IF a.client = NilHandle
        THEN Panicked(a, <<>>)
        ELSE IF ~sdk.ok
        THEN Returned(a, ZeroResponse, "error getting response: " \o SDKError, <<params>>, <<>>)
        ELSE Returned(a, OpenAIResponse(sdk.body), NoError, <<params>>, <<>>)

\* ImageRecognition falling back to a text completion
OpenAIImageRecognitionFallback(a, messages, config, sdk) ==
    OpenAITextCompletion(a, messages, config, sdk)

OpenAIImageRecognition(a, messages, config, sdk) ==
    Returned(a, ZeroResponse, "method not implemented for OpenAI client yet", <<>>, <<>>)

-----------------------------------------------------------------------------
(* Gemini: gemini_client_implementation.go *)

\* genai.Text(s) and genai.ImageData(format, data), the two kinds of genai.Part
TextPart(text) == [type |-> "Text", text |-> text, mime |-> "", data |-> <<>>]
ImageData(format, data) == [type |-> "Blob", text |-> "", mime |-> "image/" \o format, data |-> data]

\* genai.NewUserContent(parts...)
NewUserContent(parts) == [Role |-> "user", Parts |-> parts]

\* the setters of genai.GenerativeModel, as TextCompletion and
\* ImageRecognition call them on the model the adapter keeps
SetTemperature(model, config) == [model EXCEPT !.Temperature = <<config.Temperature>>]
SetTopP(model, config) == [model EXCEPT !.TopP = <<config.TopP>>]
SetTopK(model, config) == [model EXCEPT !.TopK = <<config.TopK>>]
SetMaxOutputTokens(model, config) == [model EXCEPT !.MaxOutputTokens = <<config.MaxTokens>>]

\* the system instruction is assigned when the prompt is not empty, and left
\* as it is otherwise
SetSystemInstruction(model, config) ==
    IF config.SystemPrompt # ""
    THEN [model EXCEPT !.SystemInstruction = <<NewUserContent(<<TextPart(config.SystemPrompt)>>)>>]
    ELSE model

\* the four setters, then the system instruction: all of them write the model
\* the adapter keeps
GeminiConfigure(model, config) ==
    SetSystemInstruction(
        SetMaxOutputTokens(SetTopK(SetTopP(SetTemperature(model, config), config), config),
                           config),
        config)

\* what model.GenerateContent(ctx, parts...) sends: the model's name, its
\* generation settings and system instruction as they are at the call, and the parts
GenerateContentRequest(a, parts) ==
    [api |-> "GenerateContent",
     handle |-> a.client.id,
     Model |-> a.model.name,
     Temperature |-> a.model.Temperature,
     TopP |-> a.model.TopP,
     TopK |-> a.model.TopK,
     MaxOutputTokens |-> a.model.MaxOutputTokens,
     SystemInstruction |-> a.model.SystemInstruction,
     Parts |-> parts]

\* a genai.GenerateContentResponse: candidates (each with a Content or nil) and
\* the usage metadata or nil
Candidate(content) == [Content |-> content]
UsageMetadata(prompt, candidates, total) ==
    [PromptTokenCount |-> prompt, CandidatesTokenCount |-> candidates,
     TotalTokenCount |-> total]
GenerateContentResponse(candidates, usage) ==
    [Candidates |-> candidates, UsageMetadata |-> usage]
\* the content of a candidate
ModelContent(parts) == [Role |-> "model", Parts |-> parts]

GeminiAnswers ==
    { SDKFailure,
      SDKAnswer(GenerateContentResponse(<<>>, <<>>)),
      SDKAnswer(GenerateContentResponse(
          <<Candidate(<<ModelContent(<<TextPart("hello"), TextPart("more")>>)>>),
            Candidate(<<ModelContent(<<TextPart("second")>>)>>)>>,
          <<UsageMetadata(5, 7, 12)>>)),
      SDKAnswer(GenerateContentResponse(
          <<Candidate(<<ModelContent(<<ImageData("png", <<1>>), TextPart("caption")>>)>>)>>,
          <<UsageMetadata(9, 4, 13)>>)),
      SDKAnswer(GenerateContentResponse(
          <<Candidate(<<>>), Candidate(<<ModelContent(<<TextPart("second")>>)>>)>>,
          <<UsageMetadata(2, 0, 2)>>)),
      SDKAnswer(GenerateContentResponse(
          <<Candidate(<<ModelContent(<<>>)>>)>>,
          <<UsageMetadata(6, 0, 6)>>)) }

\* the Response with the text of the first text part of the first candidate,
\* wherever it stands among the parts
GeminiResponseFirstTextPart(resp) ==
    LET texts == IF Len(resp.Candidates) > 0 /\ resp.Candidates[1].Content # <<>>
                 THEN SelectSeq(resp.Candidates[1].Content[1].Parts,
                                LAMBDA p : p.type = "Text")
                 ELSE <<>>
    IN  [Text |-> IF texts # <<>> THEN texts[1].text ELSE "",
         TokenUsage |->
            IF resp.UsageMetadata # <<>>
            THEN TokenUsage(resp.UsageMetadata[1].PromptTokenCount,
                            resp.UsageMetadata[1].CandidatesTokenCount,
                            resp.UsageMetadata[1].TotalTokenCount)
            ELSE TokenUsage(0, 0, 0),
         Raw |-> resp]

\* the Response with the text of the last candidate
GeminiResponseLastCandidate(resp) ==
    LET n == Len(resp.Candidates)
    IN  [Text |->
            IF /\ n > 0
               /\ resp.Candidates[n].Content # <<>>
               /\ Len(resp.Candidates[n].Content[1].Parts) > 0
               /\ resp.Candidates[n].Content[1].Parts[1].type = "Text"
            THEN resp.Candidates[n].Content[1].Parts[1].text
            ELSE "",
         TokenUsage |->
            IF resp.UsageMetadata # <<>>
            THEN TokenUsage(resp.UsageMetadata[1].PromptTokenCount,
                            resp.UsageMetadata[1].CandidatesTokenCount,
                            resp.UsageMetadata[1].TotalTokenCount)
            ELSE TokenUsage(0, 0, 0),
         Raw |-> resp]

\* the Response built from a GenerateContentResponse
GeminiResponse(resp) ==
    [Text |->
        IF /\ Len(resp.Candidates) > 0
           /\ resp.Candidates[1].Content # <<>>
           /\ Len(resp.Candidates[1].Content[1].Parts) > 0
           /\ resp.Candidates[1].Content[1].Parts[1].type = "Text"
        THEN resp.Candidates[1].Content[1].Parts[1].text
        ELSE "",
     TokenUsage |->
        IF resp.UsageMetadata # <<>>
        THEN TokenUsage(resp.UsageMetadata[1].PromptTokenCount,
                        resp.UsageMetadata[1].CandidatesTokenCount,
                        resp.UsageMetadata[1].TotalTokenCount)
        ELSE TokenUsage(0, 0, 0),
     Raw |-> resp]

\* the part of both operations after the parts are built
GeminiGenerate(a, parts, sdk, downloads) ==
    LET req == GenerateContentRequest(a, parts)
    IN  IF ~sdk.ok
        THEN Returned(a, ZeroResponse, "failed to generate content: " \o SDKError,
                      <<req>>, downloads)
        ELSE Returned(a, GeminiResponse(sdk.body), NoError, <<req>>, downloads)

\* TextCompletion prompting with the first message of the list
GeminiTextCompletionFirstMessage(a, messages, config, sdk) ==
    IF a.model.nil
    THEN Panicked(a, <<>>)
    ELSE LET b == [a EXCEPT !.model = GeminiConfigure(a.model, config)]
         IN  IF Len(messages) = 0
             THEN Returned(b, ZeroResponse, "no messages provided", <<>>, <<>>)
             ELSE GeminiGenerate(b, <<TextPart(messages[1].Content)>>, sdk, <<>>)

GeminiTextCompletion(a, messages, config, sdk) ==
    IF a.model.nil
    THEN Panicked(a, <<>>)
    ELSE LET b == [a EXCEPT !.model = GeminiConfigure(a.model, config)]
         IN  IF Len(messages) = 0
             THEN Returned(b, ZeroResponse, "no messages provided", <<>>, <<>>)
             ELSE GeminiGenerate(b, <<TextPart(LastOf(messages).Content)>>, sdk, <<>>)

\* what http.Get and io.ReadAll answer for a URL
HTTPOk(body) == [status |-> "ok", body |-> body]
HTTPGetFails == [status |-> "get fails", body |-> <<>>]
HTTPReadFails == [status |-> "read fails", body |-> <<>>]

URLs == {"http://img/1", "http://img/2"}
Networks == [URLs -> {HTTPOk(<<255, 216>>), HTTPGetFails, HTTPReadFails}]

\* the loop going on to the next image when a download fails
RECURSIVE GeminiImagePartsSkipFailed(_, _, _, _)
GeminiImagePartsSkipFailed(images, net, parts, downloads) ==
    IF images = <<>>
    THEN [err |-> NoError, parts |-> parts, downloads |-> downloads]
    ELSE LET img == Head(images)
         IN  IF Len(img.Data) > 0
             THEN GeminiImagePartsSkipFailed(Tail(images), net,
                      Append(parts, ImageData(img.Format, img.Data)), downloads)
             ELSE IF img.URL # ""
             THEN IF net[img.URL].status # "ok"
                  THEN GeminiImagePartsSkipFailed(Tail(images), net, parts,
                           Append(downloads, img.URL))
                  ELSE GeminiImagePartsSkipFailed(Tail(images), net,
                           Append(parts, ImageData(img.Format, net[img.URL].body)),
                           Append(downloads, img.URL))
             ELSE GeminiImagePartsSkipFailed(Tail(images), net, parts, downloads)

\* the loop over message.Images: inline data first, else the URL, else nothing
RECURSIVE GeminiImageParts(_, _, _, _)
GeminiImageParts(images, net, parts, downloads) ==
    IF images = <<>>
    THEN [err |-> NoError, parts |-> parts, downloads |-> downloads]
    ELSE LET img == Head(images)
         IN  IF Len(img.Data) > 0
             THEN GeminiImageParts(Tail(images), net,
                                   Append(parts, ImageData(img.Format, img.Data)), downloads)
             ELSE IF img.URL # ""
             THEN IF net[img.URL].status = "get fails"
                  THEN [err |-> "failed to download image: " \o SDKError,
                        parts |-> parts, downloads |-> Append(downloads, img.URL)]
                  ELSE IF net[img.URL].status = "read fails"
                  THEN [err |-> "failed to read image data: " \o SDKError,
                        parts |-> parts, downloads |-> Append(downloads, img.URL)]
                  ELSE GeminiImageParts(Tail(images), net,
                           Append(parts, ImageData(img.Format, net[img.URL].body)),
                           Append(downloads, img.URL))
             ELSE GeminiImageParts(Tail(images), net, parts, downloads)

GeminiImageRecognition(a, messages, config, sdk, net) ==
    IF a.model.nil
    THEN Panicked(a, <<>>)
    ELSE LET b == [a EXCEPT !.model = GeminiConfigure(a.model, config)]
         IN  IF Len(messages) = 0
             THEN Returned(b, ZeroResponse, "no messages provided", <<>>, <<>>)
             ELSE LET message == LastOf(messages)
                      imgs == GeminiImageParts(message.Images, net, <<>>, <<>>)
                      parts == IF message.Content # ""
                               THEN Append(imgs.parts, TextPart(message.Content))
                               ELSE imgs.parts
                  IN  IF imgs.err # NoError
                      THEN Returned(b, ZeroResponse, imgs.err, <<>>, imgs.downloads)
                      ELSE GeminiGenerate(b, parts, sdk, imgs.downloads)

-----------------------------------------------------------------------------
(* Bedrock: bedrock_client_implementation.go *)

\* encoding/json on a Go slice: null for a nil slice, an array otherwise
JSONNull == [json |-> "null", items |-> <<>>]
JSONArray(items) == [json |-> "array", items |-> items]

\* base64.StdEncoding.EncodeToString(data)
Base64(data) == [encoding |-> "base64", of |-> data]

\* the payload with a negative maxTokens raised to 0
BedrockPayloadClamped(messages, config) ==
    [schemaVersion |-> "messages-v1",
     messages |-> messages,
     system |-> <<[text |-> config.SystemPrompt]>>,
     inferenceConfig |-> [maxTokens |-> IF config.MaxTokens < 0 THEN 0 ELSE config.MaxTokens,
                          topP |-> config.TopP,
                          topK |-> config.TopK,
                          temperature |-> config.Temperature]]

\* the "system" and "inferenceConfig" entries of both request payloads
BedrockPayload(messages, config) ==
    [schemaVersion |-> "messages-v1",
     messages |-> messages,
     system |-> <<[text |-> config.SystemPrompt]>>,
     inferenceConfig |-> [maxTokens |-> config.MaxTokens,
                          topP |-> config.TopP,
                          topK |-> config.TopK,
                          temperature |-> config.Temperature]]

\* the entries of TextCompletion with the messages of empty content left out
BedrockTextMessagesSkipEmpty(messages) ==
    LET kept == SelectSeq(messages, LAMBDA m : m.Content # "")
    IN  [i \in 1..Len(kept) |->
            [role |-> kept[i].Role,
             content |-> JSONArray(<<[text |-> kept[i].Content]>>)]]

\* TextCompletion: one entry per input message, with its role as given and
\* one text item
BedrockTextMessages(messages) ==
    [i \in 1..Len(messages) |->
        [role |-> messages[i].Role,
         content |-> JSONArray(<<[text |-> messages[i].Content]>>)]]

\* the content array with the text item ahead of the image items
BedrockImageContentTextFirst(message) ==
    LET items ==
            (IF message.Content # "" THEN <<[text |-> message.Content]>> ELSE <<>>)
            \o [i \in 1..Len(message.Images) |->
                [image |-> [format |-> message.Images[i].Format,
                            source |-> [bytes |-> Base64(message.Images[i].Data)]]]]
    IN  IF items = <<>> THEN JSONNull ELSE JSONArray(items)

\* ImageRecognition: one image item per image of the message, built from the
\* inline data whether or not there is any, then the text if not empty.
\* contentArray stays a nil slice when nothing is appended.
BedrockImageContent(message) ==
    LET items ==
            [i \in 1..Len(message.Images) |->
                [image |-> [format |-> message.Images[i].Format,
                            source |-> [bytes |-> Base64(message.Images[i].Data)]]]]
            \o (IF message.Content # "" THEN <<[text |-> message.Content]>> ELSE <<>>)
    IN  IF items = <<>> THEN JSONNull ELSE JSONArray(items)

BedrockImageMessages(message) ==
    <<[role |-> message.Role, content |-> BedrockImageContent(message)]>>

\* json.Marshal(requestPayload): fails on a NaN float, else the JSON document
Marshal(payload) ==
    IF payload.inferenceConfig.topP = NaN \/ payload.inferenceConfig.temperature = NaN
    THEN [err |-> "json: unsupported value: NaN", json |-> <<>>]
    ELSE [err |-> NoError, json |-> <<payload>>]

\* bedrockruntime.InvokeModelInput
InvokeModelInput(a, body) ==
    [api |-> "InvokeModel",
     handle |-> a.client.id,
     ModelId |-> a.modelID,
     Body |-> body,
     ContentType |-> "application/json"]

\* A response body: not JSON at all, or a JSON object with the content items
\* of output.message (each with or without a "text"), possibly a usage object,
\* and the fields the adapter does not read (stopReason, usage.totalTokens:
\* a total the provider reports need not be the sum of the two counts).
MalformedBody == [wellFormed |-> FALSE, content |-> <<>>, usage |-> <<>>, stopReason |-> ""]
ResponseBody(content, usage, stopReason) ==
    [wellFormed |-> TRUE, content |-> content, usage |-> usage, stopReason |-> stopReason]
TextItem(text) == [hasText |-> TRUE, text |-> text]
ToolUseItem == [hasText |-> FALSE, text |-> ""]
BedrockUsage(in, out, total) == [inputTokens |-> in, outputTokens |-> out, totalTokens |-> total]

BedrockAnswers ==
    { SDKFailure,
      SDKAnswer(MalformedBody),
      SDKAnswer(ResponseBody(<<>>, <<>>, "")),
      SDKAnswer(ResponseBody(<<TextItem("hello"), TextItem("more")>>, <<BedrockUsage(5, 7, 12)>>, "end_turn")),
      SDKAnswer(ResponseBody(<<ToolUseItem, TextItem("after")>>, <<BedrockUsage(9, 4, 15)>>, "tool_use")) }

\* json.Unmarshal(response.Body, &responseBody): the struct keeps the text of
\* every content item ("" when the item has none) and the two usage counts
\* (0 when there is no usage object)
Unmarshal(body) ==
    IF ~body.wellFormed
    THEN [err |-> "invalid character", responseBody |-> NilRaw]
    ELSE [err |-> NoError,
          responseBody |->
            [Output |-> [Message |-> [Content |->
                [i \in 1..Len(body.content) |->
                    [Text |-> IF body.content[i].hasText THEN body.content[i].text ELSE ""]]]],
             Usage |-> IF body.usage # <<>>
                       THEN [InputTokens |-> body.usage[1].inputTokens,
                             OutputTokens |-> body.usage[1].outputTokens]
                       ELSE [InputTokens |-> 0, OutputTokens |-> 0]]]

\* the Response with TotalTokens left at its zero value
BedrockResponseNoTotal(responseBody) ==
    [Text |-> IF Len(responseBody.Output.Message.Content) > 0
              THEN responseBody.Output.Message.Content[1].Text
              ELSE "",
     TokenUsage |-> TokenUsage(responseBody.Usage.InputTokens,
                               responseBody.Usage.OutputTokens,
                               0),
     Raw |-> responseBody]

\* the Response built from the decoded body
BedrockResponse(responseBody) ==
    [Text |-> IF Len(responseBody.Output.Message.Content) > 0
              THEN responseBody.Output.Message.Content[1].Text
              ELSE "",
     TokenUsage |-> TokenUsage(responseBody.Usage.InputTokens,
                               responseBody.Usage.OutputTokens,
                               responseBody.Usage.InputTokens + responseBody.Usage.OutputTokens),
     Raw |-> responseBody]

\* both operations from json.Marshal on
BedrockInvoke(a, payload, sdk) ==
    LET m == Marshal(payload)
    IN  IF m.err # NoError
        THEN Returned(a, ZeroResponse, "error marshaling request: " \o m.err, <<>>, <<>>)
        ELSE IF a.client = NilHandle
        THEN Panicked(a, <<>>)
        ELSE LET input == InvokeModelInput(a, m.json[1])
             IN  IF ~sdk.ok
                 THEN Returned(a, ZeroResponse, "error calling Bedrock API: " \o SDKError,
                               <<input>>, <<>>)
                 ELSE LET u == Unmarshal(sdk.body)
                      IN  IF u.err # NoError
                          THEN Returned(a, ZeroResponse,
                                        "error unmarshaling response: " \o u.err,
                                        <<input>>, <<>>)
                          ELSE Returned(a, BedrockResponse(u.responseBody), NoError,
                                        <<input>>, <<>>)

BedrockTextCompletion(a, messages, config, sdk) ==
    BedrockInvoke(a, BedrockPayload(BedrockTextMessages(messages), config), sdk)

BedrockImageRecognition(a, messages, config, sdk) ==
    IF Len(messages) = 0
    THEN Returned(a, ZeroResponse, "no messages provided", <<>>, <<>>)
    ELSE BedrockInvoke(a, BedrockPayload(BedrockImageMessages(LastOf(messages)), config), sdk)

-----------------------------------------------------------------------------
(* The Client interface, dispatched on the adapter's type *)

TextCompletion(a, messages, config, sdk) ==
    CASE a.kind = OpenAIClient  -> OpenAITextCompletion(a, messages, config, sdk)
      [] a.kind = GeminiClient  -> GeminiTextCompletion(a, messages, config, sdk)
      [] a.kind = BedrockClient -> BedrockTextCompletion(a, messages, config, sdk)

ImageRecognition(a, messages, config, sdk, net) ==
    CASE a.kind = OpenAIClient  -> OpenAIImageRecognition(a, messages, config, sdk)
      [] a.kind = GeminiClient  -> GeminiImageRecognition(a, messages, config, sdk, net)
      [] a.kind = BedrockClient -> BedrockImageRecognition(a, messages, config, sdk)

\* What the provider can answer to a request through the adapter's handle: a
\* closed connection only fails.
Answers(a, closedHandles) ==
    IF a.client.id \in closedHandles THEN {SDKFailure}
    ELSE CASE a.kind = OpenAIClient  -> OpenAIAnswers
           [] a.kind = GeminiClient  -> GeminiAnswers
           [] a.kind = BedrockClient -> BedrockAnswers
           [] OTHER -> {}

\* Only the Gemini adapter downloads, and only for an image of the last message
\* that has a URL and no inline data: one network suffices otherwise.
NoNetwork == [u \in URLs |-> HTTPGetFails]
NetworksFor(a, messages) ==
    IF /\ a.kind = GeminiClient
       /\ messages # <<>>
       /\ \E i \in 1..Len(LastOf(messages).Images) :
             LET img == LastOf(messages).Images[i] IN Len(img.Data) = 0 /\ img.URL # ""
    THEN Networks
    ELSE {NoNetwork}

-----------------------------------------------------------------------------
(* The caller.  It makes one call at a time: it is "idle", calls an         *)
(* operation, holds what the operation returned and discards it.            *)

\* nothing returned.  args are the arguments of the call and what the
\* environment answered during it.
NoReturn ==
    [op |-> "none", client |-> NilClient, panicked |-> FALSE, resp |-> ZeroResponse,
     err |-> NoError, reqs |-> <<>>, downloads |-> <<>>, initCalls |-> <<>>,
     closed |-> <<>>, args |-> <<>>]

NoGoroutines == <<>>

Init ==
    /\ c = NoAdapter
    /\ created = {}
    /\ released = {}
    /\ inits = 0
    /\ pc = "idle"
    /\ ret = NoReturn
    /\ g = NoGoroutines

\* client, err := ai.NewClient(provider)
NewClientCall ==
    /\ pc = "idle"
    /\ \E provider \in ProviderIds :
          LET r == NewClient(provider)
          IN  /\ c' = r.client
              /\ ret' = [NoReturn EXCEPT !.op = "NewClient", !.client = r.client.kind,
                                         !.err = r.err,
                                         !.args = <<[provider |-> provider]>>]
    /\ created' = {}
    /\ released' = {}
    /\ inits' = 0
    /\ pc' = "returned"
    /\ UNCHANGED g

\* client, err := ai.InitializeClient(ctx, provider, opts...)
InitializeClientCall ==
    /\ pc = "idle"
    /\ \E provider \in ProviderIds, opts \in SampleOptions, sdkOK \in BOOLEAN :
          LET r == InitializeClient(provider, opts, 1, sdkOK)
          IN  /\ c' = r.client
              /\ created' = r.opened
              /\ inits' = IF r.client = NoAdapter THEN 0 ELSE Len(r.initCalls)
              /\ ret' = [NoReturn EXCEPT !.op = "InitializeClient",
                                         !.client = r.client.kind,
                                         !.err = r.err, !.initCalls = r.initCalls,
                                         !.args = <<[provider |-> provider, opts |-> opts,
                                                     sdkOK |-> sdkOK]>>]
    /\ released' = {}
    /\ pc' = "returned"
    /\ UNCHANGED g

\* err := client.Initialize(ctx, opts...)
InitializeCall ==
    /\ pc = "idle"
    /\ c # NoAdapter
    /\ inits < MaxInitialize
    /\ \E opts \in SampleOptions, sdkOK \in BOOLEAN :
          LET i == Initialize(c, opts, inits + 1, sdkOK)
          IN  /\ c' = i.c
              /\ created' = created \cup i.opened
              /\ ret' = [NoReturn EXCEPT !.op = "Initialize", !.err = i.err,
                                         !.initCalls = <<opts>>,
                                         !.args = <<[opts |-> opts, sdkOK |-> sdkOK]>>]
    /\ inits' = inits + 1
    /\ pc' = "returned"
    /\ UNCHANGED <<released, g>>

AfterCall(op, r, messages, config, sdk, net) ==
    /\ c' = r.c
    /\ ret' = [NoReturn EXCEPT !.op = op, !.panicked = r.panicked, !.resp = r.resp,
                               !.err = r.err, !.reqs = r.reqs, !.downloads = r.downloads,
                               !.args = <<[messages |-> messages, config |-> config,
                                           sdk |-> sdk, net |-> net]>>]
    /\ pc' = "returned"
    /\ UNCHANGED <<created, released, inits, g>>

\* response, err := client.TextCompletion(ctx, messages, config)
TextCompletionCall ==
    /\ pc = "idle"
    /\ c # NoAdapter
    /\ \E messages \in MessageLists, config \in SampleConfigs, sdk \in Answers(c, released) :
          AfterCall("TextCompletion", TextCompletion(c, messages, config, sdk),
                    messages, config, sdk, NoNetwork)

\* response, err := client.ImageRecognition(ctx, messages, config)
ImageRecognitionCall ==
    /\ pc = "idle"
    /\ c # NoAdapter
    /\ \E messages \in MessageLists, config \in SampleConfigs, sdk \in Answers(c, released) :
          \E net \in NetworksFor(c, messages) :
             AfterCall("ImageRecognition", ImageRecognition(c, messages, config, sdk, net),
                       messages, config, sdk, net)

CloseErrors == {NoError, "close: connection error"}

\* err := client.Close()
CloseCall ==
    /\ pc = "idle"
    /\ c # NoAdapter
    /\ \E closeErr \in CloseErrors :
          LET r == Close(c, closeErr)
          IN  /\ released' = released \cup {r.closed[i] : i \in 1..Len(r.closed)}
              /\ ret' = [NoReturn EXCEPT !.op = "Close", !.err = r.err,
                                         !.closed = r.closed,
                                         !.args = <<[closeErr |-> closeErr]>>]
    /\ pc' = "returned"
    /\ UNCHANGED <<c, created, inits, g>>

\* the caller is done with what was returned
Discard ==
    /\ pc = "returned"
    /\ pc' = "idle"
    /\ ret' = NoReturn
    /\ UNCHANGED <<c, created, released, inits, g>>

Next ==
    \/ NewClientCall
    \/ InitializeClientCall
    \/ InitializeCall
    \/ TextCompletionCall
    \/ ImageRecognitionCall
    \/ CloseCall
    \/ Discard

Spec == Init /\ [][Next]_vars

-----------------------------------------------------------------------------
(* Two goroutines of the caller, each making one call on the same adapter.  *)
(* Nothing in the adapters synchronises them.  An OpenAI or Bedrock call    *)
(* only reads the adapter and builds its request from its own arguments; a  *)
(* Gemini call writes the adapter's model statement by statement and then   *)
(* has the model send the request, so the statements of two calls           *)
(* interleave.                                                              *)

Goroutines == {"first", "second"}

\* the two operations that send a request
Calls == {"TextCompletion", "ImageRecognition"}

\* the identifiers NewClient knows
KnownProviderIds == {ProviderOpenAI, ProviderGemini, ProviderBedrock}

\* a goroutine about to call op(ctx, messages, config), and what the
\* environment will answer it
Goroutine(a, op, messages, config, net) ==
    [pc |-> IF a.kind = GeminiClient THEN "SetTemperature" ELSE "call",
     op |-> op, messages |-> messages, config |-> config, net |-> net,
     sdk |-> <<>>, panicked |-> FALSE, resp |-> ZeroResponse, err |-> NoError,
     reqs |-> <<>>, downloads |-> <<>>]

\* the message lists the goroutines pass: none, or one message
ShortLists == {<<>>} \cup {<<m>> : m \in SampleMessages}

\* the adapter came initialized from InitializeClient
ConcInit ==
    /\ \E provider \in KnownProviderIds, opts \in SampleOptions :
          c = InitializeClient(provider, opts, 1, TRUE).client
    /\ created = {1}
    /\ released = {}
    /\ inits = 1
    /\ pc = "idle"
    /\ ret = NoReturn
    /\ \E ops \in [Goroutines -> Calls], configs \in [Goroutines -> SampleConfigs],
          messages \in ShortLists :
          \E net \in NetworksFor(c, messages) :
             g = [i \in Goroutines |-> Goroutine(c, ops[i], messages, configs[i], net)]

\* c.model.SetTemperature(float32(config.Temperature))
GoSetTemperature ==
    \E i \in Goroutines :
        /\ g[i].pc = "SetTemperature"
        /\ c' = [c EXCEPT !.model = SetTemperature(c.model, g[i].config)]
        /\ g' = [g EXCEPT ![i].pc = "SetTopP"]
        /\ UNCHANGED <<created, released, inits, pc, ret>>

\* c.model.SetTopP(float32(config.TopP))
GoSetTopP ==
    \E i \in Goroutines :
        /\ g[i].pc = "SetTopP"
        /\ c' = [c EXCEPT !.model = SetTopP(c.model, g[i].config)]
        /\ g' = [g EXCEPT ![i].pc = "SetTopK"]
        /\ UNCHANGED <<created, released, inits, pc, ret>>

\* c.model.SetTopK(int32(config.TopK))
GoSetTopK ==
    \E i \in Goroutines :
        /\ g[i].pc = "SetTopK"
        /\ c' = [c EXCEPT !.model = SetTopK(c.model, g[i].config)]
        /\ g' = [g EXCEPT ![i].pc = "SetMaxOutputTokens"]
        /\ UNCHANGED <<created, released, inits, pc, ret>>

\* c.model.SetMaxOutputTokens(int32(config.MaxTokens))
GoSetMaxOutputTokens ==
    \E i \in Goroutines :
        /\ g[i].pc = "SetMaxOutputTokens"
        /\ c' = [c EXCEPT !.model = SetMaxOutputTokens(c.model, g[i].config)]
        /\ g' = [g EXCEPT ![i].pc = "SystemInstruction"]
        /\ UNCHANGED <<created, released, inits, pc, ret>>

\* if config.SystemPrompt != "" { c.model.SystemInstruction = ... }
GoSetSystemInstruction ==
    \E i \in Goroutines :
        /\ g[i].pc = "SystemInstruction"
        /\ c' = [c EXCEPT !.model = SetSystemInstruction(c.model, g[i].config)]
        /\ g' = [g EXCEPT ![i].pc = "GenerateContent"]
        /\ UNCHANGED <<created, released, inits, pc, ret>>

\* goroutine i holds what its call returned
Done(i, r, sdk) ==
    /\ g' = [g EXCEPT ![i].pc = "done", ![i].sdk = <<sdk>>, ![i].panicked = r.panicked,
                      ![i].resp = r.resp, ![i].err = r.err, ![i].reqs = r.reqs,
                      ![i].downloads = r.downloads]
    /\ UNCHANGED <<c, created, released, inits, pc, ret>>

\* the rest of a Gemini call: the check of the list, the parts, and
\* c.model.GenerateContent with the model as it is now
GeminiRest(a, op, messages, sdk, net) ==
    IF Len(messages) = 0
    THEN Returned(a, ZeroResponse, "no messages provided", <<>>, <<>>)
    ELSE IF op = "TextCompletion"
    THEN GeminiGenerate(a, <<TextPart(LastOf(messages).Content)>>, sdk, <<>>)
    ELSE LET message == LastOf(messages)
             imgs == GeminiImageParts(message.Images, net, <<>>, <<>>)
             parts == IF message.Content # ""
                      THEN Append(imgs.parts, TextPart(message.Content))
                      ELSE imgs.parts
         IN  IF imgs.err # NoError
             THEN Returned(a, ZeroResponse, imgs.err, <<>>, imgs.downloads)
             ELSE GeminiGenerate(a, parts, sdk, imgs.downloads)

GoGenerateContent ==
    \E i \in Goroutines :
        /\ g[i].pc = "GenerateContent"
        /\ \E sdk \in Answers(c, released) :
              Done(i, GeminiRest(c, g[i].op, g[i].messages, sdk, g[i].net), sdk)

\* a whole OpenAI or Bedrock call
GoCall ==
    \E i \in Goroutines :
        /\ g[i].pc = "call"
        /\ \E sdk \in Answers(c, released) :
              Done(i, IF g[i].op = "TextCompletion"
                      THEN TextCompletion(c, g[i].messages, g[i].config, sdk)
                      ELSE ImageRecognition(c, g[i].messages, g[i].config, sdk, g[i].net),
                   sdk)

ConcNext ==
    \/ GoSetTemperature
    \/ GoSetTopP
    \/ GoSetTopK
    \/ GoSetMaxOutputTokens
    \/ GoSetSystemInstruction
    \/ GoGenerateContent
    \/ GoCall

ConcSpec == ConcInit /\ [][ConcNext]_vars

-----------------------------------------------------------------------------
(* Properties *)

KnownProviders == {"openai", "gemini", "bedrock"}

\* the adapter type the factory is to return for a provider identifier
AdapterFor(provider) ==
    CASE provider = "openai"  -> OpenAIClient
      [] provider = "gemini"  -> GeminiClient
      [] provider = "bedrock" -> BedrockClient
      [] OTHER -> NilClient

\* C1: NewClient returns the OpenAI adapter for "openai", the Gemini adapter for
\* "gemini", the Bedrock adapter for "bedrock", each with a nil error, and for
\* every other identifier (the empty one and differently-cased ones included)
\* a nil client and an "unsupported provider" error.
C1_NewClientByProvider ==
    ret.op = "NewClient" =>
        LET provider == ret.args[1].provider
        IN  /\ provider = "openai"  => ret.client = OpenAIClient  /\ ret.err = NoError
            /\ provider = "gemini"  => ret.client = GeminiClient  /\ ret.err = NoError
            /\ provider = "bedrock" => ret.client = BedrockClient /\ ret.err = NoError
            /\ provider \notin KnownProviders =>
                  /\ ret.client = NilClient
                  /\ c = NoAdapter
                  /\ ret.err = "unsupported provider: " \o provider

\* NewClient has answered a differently-cased name
C1_Witness ==
    /\ ret.op = "NewClient"
    /\ ret.args[1].provider = "OpenAI"
    /\ ret.client = NilClient

\* C2: InitializeClient returns exactly one of a client and an error.  For an
\* unknown provider it returns the factory's error and calls Initialize on
\* nothing; when the adapter's Initialize fails it returns that error and no
\* client; otherwise it returns the adapter after exactly one Initialize call
\* made with the supplied options.
C2_InitializeClient ==
    ret.op = "InitializeClient" =>
        LET provider == ret.args[1].provider
            opts == ret.args[1].opts
            init == Initialize(NewAdapter(AdapterFor(provider)), opts, 1, ret.args[1].sdkOK)
        IN  /\ (ret.client = NilClient) <=> (ret.err # NoError)
            /\ (ret.client = NilClient) <=> (c = NoAdapter)
            /\ provider \notin KnownProviders =>
                  /\ ret.err = "unsupported provider: " \o provider
                  /\ ret.initCalls = <<>>
            /\ provider \in KnownProviders =>
                  /\ ret.initCalls = <<opts>>
                  /\ init.err # NoError => ret.err = init.err /\ ret.client = NilClient
                  /\ init.err = NoError =>
                        /\ ret.err = NoError
                        /\ ret.client = AdapterFor(provider)
                        /\ c = init.c

\* InitializeClient has returned the error of a failed Initialize
C2_Witness ==
    /\ ret.op = "InitializeClient"
    /\ ret.args[1].provider = "gemini"
    /\ ~ret.args[1].sdkOK
    /\ ret.initCalls # <<>>
    /\ ret.err # NoError

\* C3: OpenAI's ImageRecognition returns the zero Response and a "not
\* implemented" error for every message list and config and in every state of
\* the adapter, hands nothing to the SDK and does not panic.
C3_OpenAIImageRecognitionNotImplemented ==
    (ret.op = "ImageRecognition" /\ c.kind = OpenAIClient) =>
        /\ ~ret.panicked
        /\ ret.resp = ZeroResponse
        /\ ret.err = "method not implemented for OpenAI client yet"
        /\ ret.reqs = <<>>
        /\ ret.downloads = <<>>

\* ImageRecognition has returned on an OpenAI adapter that was never initialized
C3_Witness ==
    /\ ret.op = "ImageRecognition"
    /\ c.kind = OpenAIClient
    /\ c.client = NilHandle
    /\ ret.args[1].messages # <<>>


\* the requests an operation hands to the SDK
RequestsOf(op, a, messages, config, sdk, net) ==
    IF op = "TextCompletion"
    THEN TextCompletion(a, messages, config, sdk).reqs
    ELSE ImageRecognition(a, messages, config, sdk, net).reqs

\* the call's list leads to the requests its last message alone leads to:
\* holding for every list, this makes any two lists with the same last
\* message lead to the same requests
SameLastSameRequests ==
    LET args == ret.args[1]
    IN  RequestsOf(ret.op, c, <<LastOf(args.messages)>>, args.config, args.sdk, args.net)
            = ret.reqs

\* C4 as claimed: in every adapter and both operations, two non-empty message
\* lists with the same last message and the same config produce the same
\* provider request.
C4_LastMessageIsThePrompt ==
    (ret.op \in Calls /\ ret.args[1].messages # <<>>) => SameLastSameRequests

\* the texts of the messages of an OpenAI or Bedrock TextCompletion request,
\* the system message of the prompt left out
SentTexts(req, config) ==
    IF req.api = "chat.completions"
    THEN LET skip == IF config.SystemPrompt # "" THEN 1 ELSE 0
         IN  [i \in 1..(Len(req.Messages) - skip) |-> req.Messages[i + skip].content]
    ELSE [i \in 1..Len(req.Body.messages) |-> req.Body.messages[i].content.items[1].text]

\* C4 as amended: Gemini (both operations) and Bedrock's ImageRecognition take
\* the last message as the prompt, so that lists with the same last message
\* give the same request; OpenAI's and Bedrock's TextCompletion send every
\* message of the list, in order.
C4_LastMessageWhereUsed ==
    (ret.op \in Calls /\ ret.args[1].messages # <<>>) =>
        LET args == ret.args[1]
            sendsAll == ret.op = "TextCompletion" /\ c.kind \in {OpenAIClient, BedrockClient}
        IN  /\ ~sendsAll => SameLastSameRequests
            /\ (sendsAll /\ ret.reqs # <<>>) =>
                  SentTexts(ret.reqs[1], args.config)
                      = [i \in 1..Len(args.messages) |-> args.messages[i].Content]

\* Gemini has sent the prompt of a list of two different messages
C4_Witness ==
    /\ ret.op = "TextCompletion"
    /\ c.kind = GeminiClient
    /\ Len(ret.args[1].messages) = 2
    /\ ret.args[1].messages[1].Content # ret.args[1].messages[2].Content
    /\ ret.reqs # <<>>

\* the four sampling parameters as a request carries them, <<>> for one it
\* does not carry
SamplingOf(req) ==
    CASE req.api = "chat.completions" ->
            [Temperature |-> req.Temperature, TopP |-> req.TopP, TopK |-> <<>>,
             MaxTokens |-> req.MaxTokens]
      [] req.api = "GenerateContent" ->
            [Temperature |-> req.Temperature, TopP |-> req.TopP, TopK |-> req.TopK,
             MaxTokens |-> req.MaxOutputTokens]
      [] req.api = "InvokeModel" ->
            [Temperature |-> <<req.Body.inferenceConfig.temperature>>,
             TopP |-> <<req.Body.inferenceConfig.topP>>,
             TopK |-> <<req.Body.inferenceConfig.topK>>,
             MaxTokens |-> <<req.Body.inferenceConfig.maxTokens>>]

SamplingIn(config) ==
    [Temperature |-> <<config.Temperature>>, TopP |-> <<config.TopP>>,
     TopK |-> <<config.TopK>>, MaxTokens |-> <<config.MaxTokens>>]

C6_FailuresReturnZeroResponse ==
    ret.op \in Calls =>
        LET args == ret.args[1]
        IN  /\ Len(ret.reqs) <= 1
            /\ ret.err # NoError => ret.resp = ZeroResponse
            \* the SDK call failed
            /\ (ret.reqs # <<>> /\ ~args.sdk.ok) => ret.err # NoError
            \* the request cannot be encoded
            /\ (c.kind = BedrockClient /\ NaN \in {args.config.Temperature, args.config.TopP}
                  /\ (ret.op = "TextCompletion" \/ args.messages # <<>>)) =>
                  ret.err # NoError /\ ret.reqs = <<>> /\ ~ret.panicked
            \* the response cannot be decoded
            /\ (c.kind = BedrockClient /\ ret.reqs # <<>> /\ args.sdk.ok
                  /\ ~args.sdk.body.wellFormed) => ret.err # NoError

\* Bedrock has answered with a body that is not JSON
C6_Witness ==
    /\ ret.op = "TextCompletion"
    /\ c.kind = BedrockClient
    /\ ret.reqs # <<>>
    /\ ret.args[1].sdk = SDKAnswer(MalformedBody)
    /\ ret.err # NoError


\* the adapter as its last successful Initialize left it: what the calls made
\* since have stored in it undone
AsInitialized(a) ==
    [a EXCEPT !.model = IF a.model.nil THEN a.model ELSE GenerativeModel(a.model.name)]

\* the system texts a request carries
SystemTextsOf(req) ==
    CASE req.api = "chat.completions" ->
            {req.Messages[i].content :
                i \in {j \in 1..Len(req.Messages) : req.Messages[j].role = "system"}}
      [] req.api = "GenerateContent" ->
            UNION {{req.SystemInstruction[i].Parts[j].text :
                        j \in 1..Len(req.SystemInstruction[i].Parts)} :
                   i \in 1..Len(req.SystemInstruction)}
      [] req.api = "InvokeModel" ->
            {req.Body.system[i].text : i \in 1..Len(req.Body.system)} \ {""}

\* C7 as claimed: the request of a call depends only on the call's messages
\* and config and on the options given at Initialize, whatever calls were made
\* before; with an empty system prompt it carries no system prompt of an
\* earlier call.
C7_NoStateAcrossCalls ==
    ret.op \in Calls =>
        LET args == ret.args[1]
        IN  /\ ret.reqs = RequestsOf(ret.op, AsInitialized(c), args.messages, args.config,
                                     args.sdk, args.net)
            /\ args.config.SystemPrompt = "" =>
                  \A i \in 1..Len(ret.reqs) :
                      SystemTextsOf(ret.reqs[i]) \subseteq
                          {args.messages[j].Content : j \in 1..Len(args.messages)}

\* the sampling parameters and the system texts of each request of a list
ParametersOf(reqs) ==
    [k \in 1..Len(reqs) |->
        [sampling |-> SamplingOf(reqs[k]), system |-> SystemTextsOf(reqs[k])]]

\* C8 as claimed: of two calls running concurrently on one adapter, each
\* sends requests with the sampling parameters and the system prompt of its
\* own call, those it would send running alone on the adapter as Initialize
\* left it, in every interleaving.
C8_ConcurrentCallsCarryOwnParameters ==
    \A i \in DOMAIN g :
        g[i].pc = "done" =>
            ParametersOf(g[i].reqs) =
                ParametersOf(RequestsOf(g[i].op, AsInitialized(c), g[i].messages,
                                        g[i].config, g[i].sdk[1], g[i].net))

\* C9 as claimed: once Close has returned, every SDK handle an Initialize call
\* on the adapter created has been released.
C9_CloseReleasesEveryHandle ==
    ret.op = "Close" => created \subseteq released

\* the text of the first choice, or of the first part of the first candidate
\* or of the first content item, of what the provider answered (<<>> if none)
FirstText(kind, body) ==
    CASE kind = OpenAIClient ->
            IF Len(body.Choices) > 0 THEN <<body.Choices[1].Message.Content>> ELSE <<>>
      [] kind = GeminiClient ->
            IF /\ Len(body.Candidates) > 0
               /\ body.Candidates[1].Content # <<>>
               /\ Len(body.Candidates[1].Content[1].Parts) > 0
            THEN <<body.Candidates[1].Content[1].Parts[1].text>>
            ELSE <<>>
      [] kind = BedrockClient ->
            IF Len(body.content) > 0 THEN <<body.content[1].text>> ELSE <<>>

\* the prompt and completion token counts the provider reported (<<>> if none)
ReportedTokens(kind, body) ==
    CASE kind = OpenAIClient ->
            <<[in |-> body.Usage.PromptTokens, out |-> body.Usage.CompletionTokens]>>
      [] kind = GeminiClient ->
            IF body.UsageMetadata # <<>>
            THEN <<[in |-> body.UsageMetadata[1].PromptTokenCount,
                    out |-> body.UsageMetadata[1].CandidatesTokenCount]>>
            ELSE <<>>
      [] kind = BedrockClient ->
            IF body.usage # <<>>
            THEN <<[in |-> body.usage[1].inputTokens, out |-> body.usage[1].outputTokens]>>
            ELSE <<>>

\* an operation has returned a Response made from the provider's answer
Succeeded == ret.op \in Calls /\ ~ret.panicked /\ ret.err = NoError

BuiltFrom(kind, op, messages) ==
    IF op = "TextCompletion" /\ kind \in {OpenAIClient, BedrockClient}
    THEN messages
    ELSE <<LastOf(messages)>>

\* the roles of the messages of a request, in order, the system message of
\* the prompt left out.  GenerateContent sends its parts as one user content.
RolesOf(req, config) ==
    CASE req.api = "chat.completions" ->
            LET skip == IF config.SystemPrompt # "" THEN 1 ELSE 0
            IN  [i \in 1..(Len(req.Messages) - skip) |-> req.Messages[i + skip].role]
      [] req.api = "GenerateContent" -> <<"user">>
      [] req.api = "InvokeModel" ->
            [i \in 1..Len(req.Body.messages) |-> req.Body.messages[i].role]

RecognizedRoles == {"user", "system", "assistant"}

\* C11: in every adapter, a message with role "user", "system" or "assistant"
\* is sent with that role, and a message with any other role (the empty one
\* included) is sent with the user role.
C11_RoleDefaultsToUser ==
    (ret.op \in Calls /\ ret.args[1].messages # <<>>) =>
        LET from == BuiltFrom(c.kind, ret.op, ret.args[1].messages)
        IN  \A k \in 1..Len(ret.reqs) :
                RolesOf(ret.reqs[k], ret.args[1].config) =
                    [i \in 1..Len(from) |->
                        IF from[i].Role \in RecognizedRoles THEN from[i].Role ELSE "user"]

\* the bytes of the image parts of an ImageRecognition request, in order
ImageBytesOf(req) ==
    IF req.api = "GenerateContent"
    THEN LET blobs == SelectSeq(req.Parts, LAMBDA p : p.type = "Blob")
         IN  [i \in 1..Len(blobs) |-> blobs[i].data]
    ELSE LET items == SelectSeq(req.Body.messages[1].content.items,
                                LAMBDA it : "image" \in DOMAIN it)
         IN  [i \in 1..Len(items) |-> items[i].image.source.bytes.of]

\* C12: in ImageRecognition on Gemini and on Bedrock, a request carries one
\* image part for every image of the last message, built from the inline
\* bytes when there are any and from the bytes fetched from the URL otherwise;
\* no image is dropped, and none with a URL is sent with empty bytes.
C12_OneSourcePerImage ==
    (ret.op = "ImageRecognition" /\ c.kind \in {GeminiClient, BedrockClient}
        /\ ret.reqs # <<>>) =>
        LET images == LastOf(ret.args[1].messages).Images
            sent == ImageBytesOf(ret.reqs[1])
        IN  /\ Len(sent) = Len(images)
            /\ \A i \in 1..Len(images) :
                  /\ images[i].Data # <<>> => sent[i] = images[i].Data
                  /\ (images[i].Data = <<>> /\ images[i].URL # "") =>
                        /\ sent[i] = ret.args[1].net[images[i].URL].body
                        /\ sent[i] # <<>>

\* the options leave out a credential the adapter type needs
MissingCredentials(kind, options) ==
    \/ kind \in {OpenAIClient, GeminiClient} /\ options.APIKey = ""
    \/ kind = BedrockClient /\ (options.AccessKey = "" \/ options.SecretKey = "")

\* C13: Initialize with an empty API key (OpenAI, Gemini) or an empty access
\* key or secret key (Bedrock) returns an error, and InitializeClient returns
\* no client for such options.
C13_MissingCredentialsAreAnError ==
    /\ (ret.op = "InitializeClient" /\ ret.args[1].provider \in KnownProviders
          /\ MissingCredentials(AdapterFor(ret.args[1].provider),
                                OptionsStruct(ret.args[1].opts))) =>
            ret.err # NoError /\ ret.client = NilClient
    /\ (ret.op = "Initialize"
          /\ MissingCredentials(c.kind, OptionsStruct(ret.args[1].opts))) =>
            ret.err # NoError

\* the AWS credentials a caller supplies in its options: with the access-key
\* and secret-key options, or as the README and the example program do, the
\* access key as the API key and the secret key as the endpoint URL
SuppliedCredentials(opts) ==
    LET o == OptionsStruct(opts)
    IN  [access |-> IF o.AccessKey # "" THEN o.AccessKey ELSE o.APIKey,
         secret |-> IF o.SecretKey # "" THEN o.SecretKey ELSE o.EndpointURL]

\* C14: a Bedrock adapter that Initialize has set up holds static credentials
\* that are the access key and the secret key the caller supplied in the
\* options, also when they are supplied the README's way.
C14_BedrockSignsWithSuppliedCredentials ==
    (ret.op \in {"InitializeClient", "Initialize"} /\ c.kind = BedrockClient
        /\ ret.err = NoError) =>
        LET supplied == SuppliedCredentials(ret.args[1].opts)
        IN  /\ c.client.key = supplied.access
            /\ c.client.secret = supplied.secret

\* the texts of the system instruction parts or system blocks of a request,
\* in order, empty texts included; for OpenAI, of the system messages that
\* precede the messages rendering the input messages
SystemBlocksOf(req, messages) ==
    CASE req.api = "chat.completions" ->
            LET lead == SubSeq(req.Messages, 1, Len(req.Messages) - Len(messages))
                sys == SelectSeq(lead, LAMBDA m : m.role = "system")
            IN  [i \in 1..Len(sys) |-> sys[i].content]
      [] req.api = "GenerateContent" ->
            IF req.SystemInstruction = <<>> THEN <<>>
            ELSE [j \in 1..Len(req.SystemInstruction[1].Parts) |->
                     req.SystemInstruction[1].Parts[j].text]
      [] req.api = "InvokeModel" ->
            [i \in 1..Len(req.Body.system) |-> req.Body.system[i].text]

\* C15: in every adapter, a request made with an empty system prompt has no
\* system message, instruction or block for it, and a request made with a
\* non-empty one has exactly one, with the prompt as its text.
C15_SystemPromptIsOptional ==
    ret.op \in Calls =>
        \A k \in 1..Len(ret.reqs) :
            SystemBlocksOf(ret.reqs[k], ret.args[1].messages) =
                IF ret.args[1].config.SystemPrompt = ""
                THEN <<>>
                ELSE <<ret.args[1].config.SystemPrompt>>

\* C16: the chat messages of an OpenAI TextCompletion request are one system
\* message holding the system prompt if and only if the prompt is not empty,
\* then one message per input message in the input order, each with the
\* input's content; an input message with role "system" is one of these, a
\* further system message after the prompt.
C16_OpenAIMessageSequence ==
    (ret.op = "TextCompletion" /\ c.kind = OpenAIClient /\ ret.reqs # <<>>) =>
        LET messages == ret.args[1].messages
            prompt == ret.args[1].config.SystemPrompt
            sent == ret.reqs[1].Messages
            lead == IF prompt # "" THEN 1 ELSE 0
        IN  /\ Len(sent) = Len(messages) + lead
            /\ prompt # "" => sent[1] = [role |-> "system", content |-> prompt]
            /\ \A i \in 1..Len(messages) :
                  /\ sent[lead + i].content = messages[i].Content
                  /\ sent[lead + i].role =
                        IF messages[i].Role \in {"system", "assistant"}
                        THEN messages[i].Role ELSE "user"

\* OpenAI has been sent a system prompt followed by two input messages, one of
\* them with role "system"
C16_Witness ==
    /\ ret.op = "TextCompletion"
    /\ c.kind = OpenAIClient
    /\ ret.args[1].config.SystemPrompt # ""
    /\ Len(ret.args[1].messages) = 2
    /\ ret.args[1].messages[2].Role = "system"
    /\ ret.args[1].messages[1].Role # "system"
    /\ ret.reqs # <<>>
    /\ Len(ret.reqs[1].Messages) = 3
    /\ ret.reqs[1].Messages[3].role = "system"

\* C17: every request body the Bedrock adapter sends has schemaVersion
\* "messages-v1", a system array of one entry and an inferenceConfig with the
\* four keys maxTokens, topP, topK and temperature.  In TextCompletion the
\* messages array has one entry per input message, in input order, with the
\* input's role and a content array of one text item, the input's content; in
\* ImageRecognition it has one entry.
C17_BedrockRequestShape ==
    (ret.op \in Calls /\ c.kind = BedrockClient) =>
        \A k \in 1..Len(ret.reqs) :
            LET body == ret.reqs[k].Body
                messages == ret.args[1].messages
            IN  /\ ret.reqs[k].api = "InvokeModel"
                /\ DOMAIN body = {"schemaVersion", "messages", "system", "inferenceConfig"}
                /\ body.schemaVersion = "messages-v1"
                /\ Len(body.system) = 1
                /\ DOMAIN body.inferenceConfig = {"maxTokens", "topP", "topK", "temperature"}
                /\ ret.op = "TextCompletion" =>
                      /\ Len(body.messages) = Len(messages)
                      /\ \A i \in 1..Len(messages) :
                            /\ body.messages[i].role = messages[i].Role
                            /\ body.messages[i].content.json = "array"
                            /\ body.messages[i].content.items =
                                   <<[text |-> messages[i].Content]>>
                /\ ret.op = "ImageRecognition" => Len(body.messages) = 1

\* Bedrock has been sent a TextCompletion body for two messages, the first
\* of them with empty content
C17_Witness ==
    /\ ret.op = "TextCompletion"
    /\ c.kind = BedrockClient
    /\ Len(ret.args[1].messages) = 2
    /\ ret.args[1].messages[1].Content = ""
    /\ ret.args[1].messages[2].Content # ""
    /\ ret.reqs # <<>>
    /\ Len(ret.reqs[1].Body.messages) = 2

\* the parts of an ImageRecognition request, in order: for an image part its
\* format, for a text part its text
PartsOf(req) ==
    IF req.api = "GenerateContent"
    THEN [i \in 1..Len(req.Parts) |->
            IF req.Parts[i].type = "Blob"
            THEN [kind |-> "image", format |-> req.Parts[i].mime, text |-> ""]
            ELSE [kind |-> "text", format |-> "", text |-> req.Parts[i].text]]
    ELSE LET items == req.Body.messages[1].content.items
         IN  [i \in 1..Len(items) |->
                IF "image" \in DOMAIN items[i]
                THEN [kind |-> "image", format |-> "image/" \o items[i].image.format,
                      text |-> ""]
                ELSE [kind |-> "text", format |-> "", text |-> items[i].text]]

\* s can be had from t by leaving elements out
RECURSIVE IsSubsequence(_, _)
IsSubsequence(s, t) ==
    IF s = <<>> THEN TRUE
    ELSE IF t = <<>> THEN FALSE
    ELSE IF Head(s) = Head(t) THEN IsSubsequence(Tail(s), Tail(t))
    ELSE IsSubsequence(s, Tail(t))

\* C18: in ImageRecognition on Gemini and on Bedrock, the parts of a request
\* are image parts of the last message in the order its images are listed,
\* followed by one text part with the content if and only if the content is
\* not empty; and for a last message with no images and empty content the
\* provider is still called, with no parts (unless the call ends before the
\* request exists: a nil handle, or a config json.Marshal refuses).
C18_ImagesThenText ==
    (ret.op = "ImageRecognition" /\ c.kind \in {GeminiClient, BedrockClient}
        /\ ret.args[1].messages # <<>>) =>
        LET message == LastOf(ret.args[1].messages)
            tail == IF message.Content # ""
                    THEN <<[kind |-> "text", format |-> "", text |-> message.Content]>>
                    ELSE <<>>
        IN  /\ \A k \in 1..Len(ret.reqs) :
                  LET parts == PartsOf(ret.reqs[k])
                      n == Len(parts) - Len(tail)
                  IN  /\ n >= 0
                      /\ SubSeq(parts, n + 1, Len(parts)) = tail
                      /\ \A i \in 1..n : parts[i].kind = "image"
                      /\ IsSubsequence(
                            [i \in 1..n |-> parts[i].format],
                            [i \in 1..Len(message.Images) |->
                                "image/" \o message.Images[i].Format])
            /\ (message.Images = <<>> /\ message.Content = "" /\ ~ret.panicked
                  /\ NaN \notin {ret.args[1].config.Temperature, ret.args[1].config.TopP}) =>
                  /\ Len(ret.reqs) = 1
                  /\ PartsOf(ret.reqs[1]) = <<>>

\* Bedrock has been sent two image parts of different formats and a text part
C18_Witness ==
    /\ ret.op = "ImageRecognition"
    /\ c.kind = BedrockClient
    /\ ret.reqs # <<>>
    /\ Len(LastOf(ret.args[1].messages).Images) = 2
    /\ LastOf(ret.args[1].messages).Content # ""
    /\ Len(PartsOf(ret.reqs[1])) = 3
    /\ PartsOf(ret.reqs[1])[1].format # PartsOf(ret.reqs[1])[2].format

\* the provider's answer has no first text: no choice, candidate or content
\* item, or a first candidate with no content or no parts, or a first part or
\* item that is not text
NoFirstText(kind, body) ==
    CASE kind = OpenAIClient -> Len(body.Choices) = 0
      [] kind = GeminiClient ->
            \/ Len(body.Candidates) = 0
            \/ body.Candidates[1].Content = <<>>
            \/ Len(body.Candidates[1].Content[1].Parts) = 0
            \/ body.Candidates[1].Content[1].Parts[1].type # "Text"
      [] kind = BedrockClient ->
            \/ Len(body.content) = 0
            \/ ~body.content[1].hasText

\* the provider has answered the call's request with a response the adapter
\* can read
Answered ==
    /\ ret.op \in Calls
    /\ ret.reqs # <<>>
    /\ ret.args[1].sdk.ok
    /\ c.kind = BedrockClient => ret.args[1].sdk.body.wellFormed

\* C19: when the provider's successful response has no first text, the
\* operation does not panic and returns a nil error and a Response with the
\* empty Text and the token usage the provider reported.
C19_EmptyAnswerGivesEmptyText ==
    (Answered /\ NoFirstText(c.kind, ret.args[1].sdk.body)) =>
        LET tokens == ReportedTokens(c.kind, ret.args[1].sdk.body)
        IN  /\ ~ret.panicked
            /\ ret.err = NoError
            /\ ret.resp.Text = ""
            /\ tokens # <<>> =>
                  /\ ret.resp.TokenUsage.InputTokens = tokens[1].in
                  /\ ret.resp.TokenUsage.OutputTokens = tokens[1].out
            /\ tokens = <<>> => ret.resp.TokenUsage = TokenUsage(0, 0, 0)

\* Gemini has answered with an image as the first part, and a text after it
C19_Witness ==
    /\ Answered
    /\ c.kind = GeminiClient
    /\ Len(ret.args[1].sdk.body.Candidates) = 1
    /\ ret.args[1].sdk.body.Candidates[1].Content # <<>>
    /\ Len(ret.args[1].sdk.body.Candidates[1].Content[1].Parts) = 2
    /\ ret.args[1].sdk.body.Candidates[1].Content[1].Parts[1].type = "Blob"
    /\ ret.resp.Text = ""
    /\ ret.resp.TokenUsage.InputTokens = 9

\* position of the first URL of the list whose download or body read fails,
\* 0 when there is none
FirstFailure(urls, net) ==
    LET failing == {i \in 1..Len(urls) : net[urls[i]].status # "ok"}
    IN  IF failing = {} THEN 0 ELSE CHOOSE i \in failing : \A j \in failing : i <= j

\* C20: Gemini's ImageRecognition downloads, in list order, the URLs of the
\* images of the last message that have no inline bytes, and no other; when a
\* download or body read fails it downloads nothing after it, returns the
\* zero Response and an error, and does not call GenerateContent.
C20_FailedDownloadStopsTheCall ==
    (ret.op = "ImageRecognition" /\ c.kind = GeminiClient /\ ~ret.panicked
        /\ ret.args[1].messages # <<>>) =>
        LET images == LastOf(ret.args[1].messages).Images
            needed == SelectSeq(images, LAMBDA img : img.Data = <<>> /\ img.URL # "")
            urls == [i \in 1..Len(needed) |-> needed[i].URL]
            failed == FirstFailure(urls, ret.args[1].net)
        IN  /\ failed = 0 => ret.downloads = urls /\ Len(ret.reqs) = 1
            /\ failed # 0 =>
                  /\ ret.downloads = SubSeq(urls, 1, failed)
                  /\ ret.resp = ZeroResponse
                  /\ ret.err # NoError
                  /\ ret.reqs = <<>>

\* the download of the first of two URL images has failed
C20_Witness ==
    /\ ret.op = "ImageRecognition"
    /\ c.kind = GeminiClient
    /\ ~ret.panicked
    /\ ret.args[1].messages # <<>>
    /\ Len(LastOf(ret.args[1].messages).Images) = 3
    /\ ret.args[1].net["http://img/1"].status = "read fails"
    /\ ret.args[1].net["http://img/2"].status = "ok"
    /\ ret.downloads = <<"http://img/1">>
    /\ ret.err # NoError

\* Initialize has set the adapter up: it holds an SDK handle
Initialized(a) == a.client # NilHandle

\* C21: in every adapter and in both operations, a call with an empty message
\* list returns a non-nil error and the zero Response and hands nothing to the
\* provider SDK; Gemini's two operations and Bedrock's ImageRecognition report
\* "no messages provided".  Stated of an adapter that Initialize has set up.
C21_EmptyListIsRefused ==
    (ret.op \in Calls /\ ret.args[1].messages = <<>> /\ Initialized(c)) =>
        /\ ~ret.panicked
        /\ ret.err # NoError
        /\ ret.resp = ZeroResponse
        /\ ret.reqs = <<>>
        /\ ret.downloads = <<>>
        /\ (c.kind = GeminiClient \/ (c.kind = BedrockClient /\ ret.op = "ImageRecognition")) =>
              ret.err = "no messages provided"

\* the operations a caller makes on an adapter it holds
AdapterCalls == {"Initialize", "TextCompletion", "ImageRecognition", "Close"}

\* C22: a call on an adapter that returns an error leaves the adapter as it
\* was before the call: a failed Initialize leaves the stored options, the
\* model id and the SDK handle, and a failed TextCompletion or
\* ImageRecognition leaves the model's settings and system instruction, so
\* that later calls send what they would have sent without the failed call.
C22_ErrorsLeaveAdapterUnchanged ==
    [][(ret'.op \in AdapterCalls /\ ~ret'.panicked /\ ret'.err # NoError) => c' = c]_vars

\* C23: on an adapter that NewClient returned and on which no Initialize has
\* succeeded, TextCompletion and ImageRecognition return an error and neither
\* panic on the nil SDK handle or model nor hand a request to the SDK; Close
\* returns nil and closes nothing.
C23_UninitializedAdapterIsSafe ==
    ~Initialized(c) =>
        /\ ret.op \in Calls =>
              /\ ~ret.panicked
              /\ ret.err # NoError
              /\ ret.reqs = <<>>
        /\ ret.op = "Close" =>
              /\ ret.err = NoError
              /\ ret.closed = <<>>

\* C24: once Close has returned on an adapter, no later call on it uses the
\* SDK handle Close released: TextCompletion and ImageRecognition hand no
\* request to the SDK through a released handle, and Close does not close a
\* handle that an earlier Close has closed.
C24_NoUseAfterClose ==
    [][pc = "idle" =>
          /\ ret'.op \in Calls =>
                \A k \in 1..Len(ret'.reqs) : ret'.reqs[k].handle \notin released
          /\ ret'.op = "Close" =>
                \A i \in 1..Len(ret'.closed) : ret'.closed[i] \notin released]_vars

\* C25: in every successful Bedrock response, of TextCompletion and of
\* ImageRecognition, InputTokens and OutputTokens are the two usage counts of
\* the response body and TotalTokens is their sum, whatever total the body
\* reports; a body with no usage object gives 0 for all three.
C25_BedrockTotalIsTheSum ==
    (Succeeded /\ c.kind = BedrockClient) =>
        LET usage == ret.args[1].sdk.body.usage
            counted == ret.resp.TokenUsage
        IN  /\ counted.TotalTokens = counted.InputTokens + counted.OutputTokens
            /\ usage # <<>> =>
                  /\ counted.InputTokens = usage[1].inputTokens
                  /\ counted.OutputTokens = usage[1].outputTokens
            /\ usage = <<>> => counted = TokenUsage(0, 0, 0)

\* Bedrock's ImageRecognition has answered with a usage object whose total is
\* not the sum of its two counts
C25_Witness ==
    /\ Succeeded
    /\ c.kind = BedrockClient
    /\ ret.op = "ImageRecognition"
    /\ ret.args[1].sdk.body.usage # <<>>
    /\ ret.args[1].sdk.body.usage[1].totalTokens #
          ret.args[1].sdk.body.usage[1].inputTokens + ret.args[1].sdk.body.usage[1].outputTokens
    /\ ret.resp.TokenUsage.TotalTokens = 13
====
